---------------------------- MODULE Spec2Model ----------------------------
(***************************************************************************)
(* Model of the ETL pipeline of ai-datacenter-energy-impact:               *)
(*   scripts/01_data_collection.py   DataCollector  (raw snapshots)        *)
(*   scripts/02_data_cleaning.py     DataCleaner    (cleaned files)        *)
(*   scripts/03_data_transformation.py DatabaseLoader (warehouse load)     *)
(*   scripts/load_data.py            bulk-join loader (load_eia_prices)    *)
(*                                                                         *)
(* Conventions.  A value that may be missing (NaN / NULL) is a sequence of *)
(* length 0 or 1: <<>> is missing, <<v>> is the value v.  A calendar date  *)
(* is the number YYYYMMDD, an EIA period ("YYYY-MM") the number YYYYMM.    *)
(* Prices are whole cents, a quotient is kept as an exact fraction         *)
(* [num, den].  A table or a CSV file is the sequence of its rows.         *)
(* Columns that no operation of the pipeline computes with (company, city, *)
(* opening_date, pue_ratio, renewable_energy_mwh ...) are left out of the  *)
(* rows.                                                                   *)
(***************************************************************************)
EXTENDS Integers, Sequences, FiniteSets, TLC

VARIABLES
    rawDir,        \* data/raw: file name -> [ctime, rows]
    procDir,       \* data/processed: [prices, datacenters, report], each <<>> or <<file>>
    db,            \* committed contents of the four warehouse tables
    proc,          \* which script is running: "none", "cleaner", "loader", "bulk"
    pc,            \* position of the running script
    loader,        \* DatabaseLoader run: counts returned by the steps, return value
    connWrites,    \* writes pending in the psycopg2 transaction of self.conn
    output,        \* warnings printed by the running price load
    exitCode,      \* exit status of the last loader process, <<>> while none ended
    runLog,        \* outcome of every loader process that ended, oldest first
    tablesBefore,  \* the tables as they were when the current loader run started
    clock,         \* wall clock, in seconds
    collector,     \* DataCollector object: timestamp, loop position, all_data
    requests,      \* the HTTP exchanges of the current collect call, in order
    slept,         \* number of time.sleep(0.5) calls of the current collect call
    lastWritten,   \* per dataset, the raw snapshot written last: <<>> or <<name>>
    cleanerError,  \* the exception that ended the last cleaner process, or <<>>
    peer           \* a second loader process, while it is not the one running:
                   \* its proc, pc, loader, connWrites, output, exitCode, tablesBefore

vars == <<rawDir, procDir, db, proc, pc, loader, connWrites, output, exitCode,
          runLog, tablesBefore, clock, collector, requests, slept, lastWritten,
          cleanerError, peer>>

collectVars == <<clock, collector, requests, slept>>
loadVars == <<db, loader, connWrites, output, exitCode, runLog, tablesBefore,
             peer>>
histVars == <<lastWritten, cleanerError>>

----------------------------------------------------------------------------
(* Bounds of the model *)

MaxLoaderRuns == 2
MaxCollectRuns == 2
MaxClock == 2
NumStates == 2

(* Program constants *)

PriceMin == 1
PriceMax == 100
LatMin == 24
LatMax == 71
LonMin == -180
LonMax == -66
ClipLo == 0
ClipHi == 100
WindowStart == 20200101
WindowEnd == 20241201
HoursInMonth == 730

----------------------------------------------------------------------------
(* Generic helpers *)

Null == <<>>
Some(v) == <<v>>
IsNull(x) == x = <<>>
Val(x) == x[1]

RECURSIVE Concat(_)
Concat(ss) == IF ss = <<>> THEN <<>> ELSE Head(ss) \o Concat(Tail(ss))

Count(s, P(_)) == Cardinality({i \in DOMAIN s : P(s[i])})

IsPrefix(s, t) == Len(s) <= Len(t) /\ SubSeq(t, 1, Len(s)) = s

\* the sub-sequence of list at the positions in idx, in list order
RECURSIVE Pick(_, _)
Pick(list, idx) ==
    IF list = <<>> THEN <<>>
    ELSE LET rest == Pick(SubSeq(list, 1, Len(list) - 1), idx)
         IN IF Len(list) \in idx THEN Append(rest, list[Len(list)]) ELSE rest

SubLists(list) == {Pick(list, idx) : idx \in SUBSET DOMAIN list}


----------------------------------------------------------------------------
(* config.py *)

StateCodes == <<"AL", "AK", "AZ", "AR", "CA">>

\* US_STATES, cut to its first NumStates codes
US_STATES == SubSeq(StateCodes, 1, NumStates)

InUsStates(code) == \E i \in DOMAIN US_STATES : US_STATES[i] = code

----------------------------------------------------------------------------
(* Text forms used in the CSV files and their parsers *)

\* pd.to_datetime(text, format='%Y-%m'): the first day of the month
ToDatetimeYm(period) == period[1] * 10000 + period[2] * 100 + 1

\* to_csv writes a datetime as "YYYY-MM-DD"
FormatDate(d) == <<d \div 10000, (d \div 100) % 100, d % 100>>

\* pd.to_datetime(text) of "YYYY-MM-DD"
ParseDate(text) == text[1] * 10000 + text[2] * 100 + text[3]

\* EXTRACT(DAY FROM full_date)
DayOf(d) == d % 100

----------------------------------------------------------------------------
(* 02_data_cleaning.py: DataCleaner *)

FileName(kind, ts) == [kind |-> kind, ts |-> ts]

\* glob(pattern): the raw files of one dataset
Matching(dir, kind) == {n \in DOMAIN dir : n.kind = kind}

\* faulty variant of LatestFiles: min in place of max
OldestFiles(dir, kind) ==
    {n \in Matching(dir, kind) :
        \A m \in Matching(dir, kind) : dir[n].ctime <= dir[m].ctime}

\* max(files, key=os.path.getctime); the empty set stands for FileNotFoundError
LatestFiles(dir, kind) ==
    {n \in Matching(dir, kind) :
        \A m \in Matching(dir, kind) : dir[m].ctime <= dir[n].ctime}

\* df.rename(...) and df['date'] = pd.to_datetime(df['date'], format='%Y-%m')
RenamePrice(r) ==
    [date |-> ToDatetimeYm(r.period), state |-> r.stateid,
     price_cents_per_kwh |-> r.price, sales_mwh |-> r.sales,
     sectorName |-> r.sectorName]

\* df.dropna(subset=['price_cents_per_kwh', 'sales_mwh'])
NotMissing(r) == ~IsNull(r.price_cents_per_kwh) /\ ~IsNull(r.sales_mwh)

\* faulty variant of PriceInRange: the upper limit is not tested
PriceAtLeastMin(r) ==
    ~IsNull(r.price_cents_per_kwh) /\ Val(r.price_cents_per_kwh) >= PriceMin

\* (price >= 1) & (price <= 100); a comparison with NaN is False
PriceInRange(r) ==
    /\ ~IsNull(r.price_cents_per_kwh)
    /\ Val(r.price_cents_per_kwh) >= PriceMin
    /\ Val(r.price_cents_per_kwh) <= PriceMax

\* df['state'].isin(US_STATES)
StateKnown(r) == InUsStates(r.state)

\* x / 100 as an exact fraction; NaN / 100 is NaN
Div100(x) == IF IsNull(x) THEN Null ELSE Some([num |-> Val(x), den |-> 100])

\* the row as written to eia_prices_clean.csv
CleanPriceRow(r) ==
    [date |-> FormatDate(r.date), state |-> r.state,
     price_cents_per_kwh |-> r.price_cents_per_kwh, sales_mwh |-> r.sales_mwh,
     sectorName |-> r.sectorName,
     price_per_kwh |-> Div100(r.price_cents_per_kwh)]

MapSeq(s, F(_)) == [i \in DOMAIN s |-> F(s[i])]

\* faulty variant of CleanEiaPricesRows: to_csv(mode='a'), the rows are added
\* to the cleaned file that is there
CleanEiaPricesRowsAppended(rows) ==
    (IF IsNull(procDir.prices) THEN <<>> ELSE Val(procDir.prices))
        \o MapSeq(SelectSeq(SelectSeq(SelectSeq(MapSeq(rows, RenamePrice),
                                                NotMissing),
                                      PriceInRange),
                            StateKnown),
                  CleanPriceRow)

\* clean_eia_prices, from the rows read to the rows written
CleanEiaPricesRows(rows) ==
    LET renamed == MapSeq(rows, RenamePrice)
        present == SelectSeq(renamed, NotMissing)
        ranged  == SelectSeq(present, PriceInRange)
        known   == SelectSeq(ranged, StateKnown)
    IN MapSeq(known, CleanPriceRow)

\* faulty variant of InBox: the southern edge is not tested
InBoxNoSouthernEdge(r) ==
    /\ r.latitude <= LatMax
    /\ r.longitude >= LonMin /\ r.longitude <= LonMax

\* the latitude / longitude box of clean_datacenter_data
InBox(r) ==
    /\ r.latitude >= LatMin /\ r.latitude <= LatMax
    /\ r.longitude >= LonMin /\ r.longitude <= LonMax

\* faulty variant of Clip: the lower limit is not applied
ClipUpperOnly(x) ==
    IF IsNull(x) THEN Null
    ELSE IF Val(x) > ClipHi THEN Some(ClipHi)
    ELSE x

\* Series.clip(0, 100); NaN stays NaN
Clip(x) ==
    IF IsNull(x) THEN Null
    ELSE IF Val(x) < ClipLo THEN Some(ClipLo)
    ELSE IF Val(x) > ClipHi THEN Some(ClipHi)
    ELSE x

ClipRenewable(r) == [r EXCEPT !.renewable_pct = Clip(r.renewable_pct)]

\* clean_datacenter_data, from the rows read to the rows written
CleanDatacenterRows(rows) == MapSeq(SelectSeq(rows, InBox), ClipRenewable)

----------------------------------------------------------------------------
(* Inputs: the raw snapshots a cleaning run may find, and dim_date *)

GoodPriceRows == <<
    [period |-> <<2023, 5>>, stateid |-> "AL", sectorName |-> "all sectors",
     price |-> <<1>>,   sales |-> <<7>>],
    [period |-> <<2019, 12>>, stateid |-> "AK", sectorName |-> "all sectors",
     price |-> <<100>>, sales |-> <<9>>] >>

BadPriceRows == {
    [period |-> <<2023, 5>>, stateid |-> "AL", sectorName |-> "all sectors",
     price |-> <<0>>,   sales |-> <<7>>],
    [period |-> <<2023, 5>>, stateid |-> "AL", sectorName |-> "all sectors",
     price |-> <<101>>, sales |-> <<7>>],
    [period |-> <<2023, 5>>, stateid |-> "AL", sectorName |-> "all sectors",
     price |-> <<>>,    sales |-> <<7>>],
    [period |-> <<2023, 5>>, stateid |-> "AL", sectorName |-> "all sectors",
     price |-> <<50>>,  sales |-> <<>>],
    [period |-> <<2023, 5>>, stateid |-> "ZZ", sectorName |-> "all sectors",
     price |-> <<50>>,  sales |-> <<7>>] }

\* some good rows, then at most one bad row
RawPriceFiles ==
    {g \o b : g \in SubLists(GoodPriceRows),
              b \in {<<>>} \cup {<<r>> : r \in BadPriceRows}}

GoodDcRows == <<
    [name |-> "dcA", latitude |-> 24, longitude |-> -180, capacity_mw |-> 100,
     is_ai_focused |-> TRUE, renewable_pct |-> <<150>>],
    [name |-> "dcB", latitude |-> 71, longitude |-> -66, capacity_mw |-> 95,
     is_ai_focused |-> FALSE, renewable_pct |-> <<-5>>],
    [name |-> "dcG", latitude |-> 40, longitude |-> -100, capacity_mw |-> 95,
     is_ai_focused |-> TRUE, renewable_pct |-> <<>>] >>

BadDcRows == {
    [name |-> "dcC", latitude |-> 10, longitude |-> -100, capacity_mw |-> 100,
     is_ai_focused |-> TRUE, renewable_pct |-> <<50>>],
    [name |-> "dcD", latitude |-> 72, longitude |-> -100, capacity_mw |-> 100,
     is_ai_focused |-> TRUE, renewable_pct |-> <<50>>],
    [name |-> "dcE", latitude |-> 40, longitude |-> -181, capacity_mw |-> 100,
     is_ai_focused |-> FALSE, renewable_pct |-> <<50>>],
    [name |-> "dcF", latitude |-> 40, longitude |-> -65, capacity_mw |-> 100,
     is_ai_focused |-> FALSE, renewable_pct |-> <<>>] }

\* at most one good row, then at most one bad row
RawDcFiles ==
    {g \o b : g \in {<<>>} \cup {<<GoodDcRows[i]>> : i \in DOMAIN GoodDcRows},
              b \in {<<>>} \cup {<<r>> : r \in BadDcRows}}

\* dim_date rows: a first of month inside the generation window, a day that is
\* not the first, a first of month before the window, that date once more
DateRows == <<
    [date_id |-> 10, full_date |-> 20230501],
    [date_id |-> 20, full_date |-> 20230502],
    [date_id |-> 30, full_date |-> 20191201],
    [date_id |-> 40, full_date |-> 20191201] >>

\* the runs of consecutive rows of DateRows, the empty table among them
DimDateTables ==
    {SubSeq(DateRows, i, j) : i \in 1..(Len(DateRows) + 1), j \in 0..Len(DateRows)}

----------------------------------------------------------------------------
(* 03_data_transformation.py: DatabaseLoader, and load_data.py *)

\* the columns of dim_datacenters; datacenter_id is the table's serial key
DcToLoad(r, id) ==
    [datacenter_id |-> id, name |-> r.name, latitude |-> r.latitude,
     longitude |-> r.longitude, capacity_mw |-> r.capacity_mw,
     is_ai_focused |-> r.is_ai_focused, renewable_energy_pct |-> r.renewable_pct]

\* faulty variant of AppendDatacenters: if_exists='replace'
ReplaceDatacenters(table, rows) == [i \in 1..Len(rows) |-> DcToLoad(rows[i], i)]

\* df_to_load.to_sql('dim_datacenters', if_exists='append')
AppendDatacenters(table, rows) ==
    table \o [i \in 1..Len(rows) |-> DcToLoad(rows[i], Len(table) + i)]

\* faulty variant of DateMatches: compares year and month, not the day
DateMatchesSameMonth(dimDate, d) ==
    {i \in DOMAIN dimDate : dimDate[i].full_date \div 100 = d \div 100}

\* SELECT date_id FROM dim_date WHERE full_date = %s: positions of the matches
DateMatches(dimDate, d) == {i \in DOMAIN dimDate : dimDate[i].full_date = d}

\* What cursor.fetchone() may return for every row of the cleaned file: 0 for
\* None, otherwise the position of one matching dim_date row (the query has
\* no ORDER BY, so any of the matches may come first).
FetchOneChoices(rows, dimDate) ==
    {sel \in [DOMAIN rows -> 0..Len(dimDate)] :
        \A i \in DOMAIN rows :
            LET m == DateMatches(dimDate, ParseDate(rows[i].date))
            IN IF m = {} THEN sel[i] = 0 ELSE sel[i] \in m}

FactPriceRow(row, dateId, priceType, sector) ==
    [region |-> row.state, date_id |-> dateId,
     price_per_kwh |-> row.price_per_kwh,
     price_cents_per_kwh |-> row.price_cents_per_kwh,
     sales_mwh |-> row.sales_mwh, price_type |-> priceType, sector |-> sector]

\* the loop of load_electricity_prices: prices_with_ids
RECURSIVE PricesWithIds(_, _, _)
PricesWithIds(rows, dimDate, sel) ==
    IF rows = <<>> THEN <<>>
    ELSE LET n    == Len(rows)
             rest == PricesWithIds(SubSeq(rows, 1, n - 1), dimDate, sel)
         IN IF sel[n] # 0
            THEN Append(rest, FactPriceRow(rows[n], dimDate[sel[n]].date_id,
                                           "retail", "all"))
            ELSE rest

\* load_eia_prices: df.merge(date_df, how='left'), one output row per match
\* and one row with a missing date_id where there is no match
RECURSIVE MergeLeft(_, _)
MergeLeft(rows, dimDate) ==
    IF rows = <<>> THEN <<>>
    ELSE LET row == Head(rows)
             hit == SelectSeq(dimDate,
                        LAMBDA t : t.full_date = ParseDate(row.date))
             out == IF hit = <<>>
                    THEN <<[row |-> row, date_id |-> Null]>>
                    ELSE [i \in DOMAIN hit |->
                             [row |-> row, date_id |-> Some(hit[i].date_id)]]
         IN out \o MergeLeft(Tail(rows), dimDate)

MergedMissing(m) == IsNull(m.date_id)
MergedPresent(m) == ~IsNull(m.date_id)

\* faulty variant of BulkPriceRows: without the dropna, a row without a match
\* is loaded with date_id 0
BulkPriceRowsKeepingMissing(rows, dimDate) ==
    LET kept == MergeLeft(rows, dimDate)
    IN [i \in DOMAIN kept |->
           FactPriceRow(kept[i].row,
                        IF IsNull(kept[i].date_id) THEN 0 ELSE Val(kept[i].date_id),
                        "average", kept[i].row.sectorName)]

\* load_eia_prices: price_df, after df.dropna(subset=['date_id'])
BulkPriceRows(rows, dimDate) ==
    LET kept == SelectSeq(MergeLeft(rows, dimDate), MergedPresent)
    IN [i \in DOMAIN kept |->
           FactPriceRow(kept[i].row, Val(kept[i].date_id), "average",
                        kept[i].row.sectorName)]

\* load_eia_prices: len(missing)
BulkMissing(rows, dimDate) == Count(MergeLeft(rows, dimDate), MergedMissing)

\* values np.random.random() may return, in thousandths: the draw is in [0, 1)
DrawPool == {0, 999}

\* n / d rounded to the nearest integer, ties to even: round(x, 2) on hundredths
RoundDiv(n, d) ==
    LET q == n \div d
        r == n % d
    IN IF 2 * r < d THEN q
       ELSE IF 2 * r > d THEN q + 1
       ELSE IF q % 2 = 0 THEN q ELSE q + 1

\* faulty variant of Utilization: the two ranges are exchanged
UtilizationExchanged(isAi, draw) == IF isAi THEN 7000 + 2 * draw ELSE 8500 + draw

\* utilization * 10000: 0.85 + 0.10 * draw, or 0.70 + 0.20 * draw
Utilization(isAi, draw) == IF isAi THEN 8500 + draw ELSE 7000 + 2 * draw

\* round(capacity_mw * 730 * utilization, 2), in hundredths of a MWh
MonthlyConsumption(dc, draw) ==
    RoundDiv(dc.capacity_mw * HoursInMonth * Utilization(dc.is_ai_focused, draw),
             100)

\* faulty variant of InWindow: the day of the month is not tested
InWindowAnyDay(t) == t.full_date >= WindowStart /\ t.full_date <= WindowEnd

\* WHERE EXTRACT(DAY FROM full_date) = 1 AND full_date in the window
InWindow(t) ==
    DayOf(t.full_date) = 1 /\ t.full_date >= WindowStart /\ t.full_date <= WindowEnd

\* faulty variant of ConsumptionRecord: the 0-based position of the datacenter
\* in place of its datacenter_id
ConsumptionRecordByPosition(dc, date, draw) ==
    [datacenter_id |-> dc.datacenter_id - 1, date_id |-> date.date_id,
     energy_consumed_mwh |-> [num |-> MonthlyConsumption(dc, draw), den |-> 100],
     source |-> "estimated"]

ConsumptionRecord(dc, date, draw) ==
    [datacenter_id |-> dc.datacenter_id, date_id |-> date.date_id,
     energy_consumed_mwh |-> [num |-> MonthlyConsumption(dc, draw), den |-> 100],
     source |-> "estimated"]

\* consumption_records: one per (datacenter, date), datacenters outermost
ConsumptionRecords(dcs, dates, draws) ==
    [k \in 1..(Len(dcs) * Len(dates)) |->
        ConsumptionRecord(dcs[((k - 1) \div Len(dates)) + 1],
                          dates[((k - 1) % Len(dates)) + 1], draws[k])]

\* the LEFT JOIN ... WHERE dc.datacenter_id IS NULL count of verify_data_integrity
Orphans(d) ==
    Count(d.fact_energy_consumption,
          LAMBDA ec : \A j \in DOMAIN d.dim_datacenters :
                          d.dim_datacenters[j].datacenter_id # ec.datacenter_id)

----------------------------------------------------------------------------
(* State *)

EmptyLoader == [dc_count |-> Null, price_count |-> Null,
                consumption_count |-> Null, orphans |-> Null, success |-> Null]

\* a loader process that has not been started
NoPeer == [proc |-> "none", pc |-> "idle", loader |-> EmptyLoader,
           connWrites |-> <<>>, output |-> <<>>, exitCode |-> Null,
           tablesBefore |-> <<>>]

NoCollector == [timestamp |-> Null, pc |-> "none", idx |-> 0, all_data |-> <<>>,
                runs |-> 0]

\* the datasets the collector writes snapshots of
Datasets == {"prices", "generation", "datacenters"}

\* one snapshot of a dataset in data/raw, or none
RawDirs(priceFiles, dcFiles) ==
    {[n \in p \cup d |->
         IF n.kind = "prices" THEN [ctime |-> 1, rows |-> pf]
                              ELSE [ctime |-> 1, rows |-> df]] :
        p \in {{}, {FileName("prices", 1)}}, d \in {{}, {FileName("datacenters", 1)}},
        pf \in priceFiles, df \in dcFiles}

\* The cleaner and the loaders start from raw snapshots left by collection runs
\* and from the warehouse as the schema script leaves it: dim_date populated,
\* the other tables empty.  Either the price snapshot or the facility snapshot
\* ranges over all its files, the other one over one file of good rows.
Init ==
    /\ rawDir \in RawDirs(RawPriceFiles, {SubSeq(GoodDcRows, 1, 1)})
                    \cup RawDirs({GoodPriceRows}, RawDcFiles)
    /\ procDir = [prices |-> Null, datacenters |-> Null, report |-> Null]
    /\ \E dd \in DimDateTables :
          db = [dim_datacenters |-> <<>>, dim_date |-> dd,
                fact_electricity_prices |-> <<>>, fact_energy_consumption |-> <<>>]
    /\ proc = "none" /\ pc = "idle"
    /\ loader = EmptyLoader
    /\ connWrites = <<>>
    /\ output = <<>>
    /\ exitCode = Null
    /\ runLog = <<>>
    /\ tablesBefore = db
    /\ clock = 0
    /\ collector = NoCollector
    /\ requests = <<>>
    /\ slept = 0
    /\ lastWritten = [k \in Datasets |->
                         IF FileName(k, 1) \in DOMAIN rawDir
                         THEN Some(FileName(k, 1)) ELSE Null]
    /\ cleanerError = Null
    /\ peer = NoPeer

----------------------------------------------------------------------------
(* run_all_cleaning *)

StartCleaner ==
    /\ proc = "none"
    /\ proc' = "cleaner" /\ pc' = "clean_eia_prices"
    /\ cleanerError' = Null
    /\ UNCHANGED <<rawDir, procDir, lastWritten>>
    /\ UNCHANGED loadVars /\ UNCHANGED collectVars

\* clean_eia_prices: FileNotFoundError without a snapshot, EmptyDataError on a
\* snapshot without columns (saved from no records); both end the process
CleanEiaPrices ==
    /\ proc = "cleaner" /\ pc = "clean_eia_prices"
    /\ IF LatestFiles(rawDir, "prices") = {}
       THEN /\ proc' = "none" /\ pc' = "idle" /\ UNCHANGED procDir
            /\ cleanerError' = Some("FileNotFoundError")
       ELSE \E n \in LatestFiles(rawDir, "prices") :
               IF rawDir[n].rows = <<>>
               THEN /\ proc' = "none" /\ pc' = "idle" /\ UNCHANGED procDir
                    /\ cleanerError' = Some("EmptyDataError")
               ELSE /\ procDir' = [procDir EXCEPT
                           !.prices = Some(CleanEiaPricesRows(rawDir[n].rows))]
                    /\ proc' = proc /\ pc' = "clean_datacenter_data"
                    /\ UNCHANGED cleanerError
    /\ UNCHANGED <<rawDir, lastWritten>>
    /\ UNCHANGED loadVars /\ UNCHANGED collectVars

CleanDatacenterData ==
    /\ proc = "cleaner" /\ pc = "clean_datacenter_data"
    /\ IF LatestFiles(rawDir, "datacenters") = {}
       THEN /\ proc' = "none" /\ pc' = "idle" /\ UNCHANGED procDir
            /\ cleanerError' = Some("FileNotFoundError")
       ELSE \E n \in LatestFiles(rawDir, "datacenters") :
               IF rawDir[n].rows = <<>>
               THEN /\ proc' = "none" /\ pc' = "idle" /\ UNCHANGED procDir
                    /\ cleanerError' = Some("EmptyDataError")
               ELSE /\ procDir' = [procDir EXCEPT
                           !.datacenters = Some(CleanDatacenterRows(rawDir[n].rows))]
                    /\ proc' = proc /\ pc' = "report"
                    /\ UNCHANGED cleanerError
    /\ UNCHANGED <<rawDir, lastWritten>>
    /\ UNCHANGED loadVars /\ UNCHANGED collectVars

\* generate_data_quality_report: the row counts of the cleaned files
GenerateDataQualityReport ==
    /\ proc = "cleaner" /\ pc = "report"
    /\ procDir' = [procDir EXCEPT
           !.report = Some(<<Len(Val(procDir.prices)), Len(Val(procDir.datacenters))>>)]
    /\ proc' = "none" /\ pc' = "idle"
    /\ UNCHANGED rawDir /\ UNCHANGED histVars
    /\ UNCHANGED loadVars /\ UNCHANGED collectVars

----------------------------------------------------------------------------
(* DatabaseLoader.run_full_load and __main__ of 03_data_transformation.py *)

\* A step of the load raises when its cleaned file is missing or when the
\* database fails under it (dbFails: any of its statements may).  DataFrame
\* .to_sql(self.engine) runs in a transaction of its own on a connection of the
\* engine and commits it: its rows are in the table when it returns, and a
\* failing to_sql leaves the table as it was.  self.conn, the psycopg2
\* connection, only ever sends SELECTs.

\* The warehouse is loaded by one of the two loader scripts, run after run.
OnlyScript(name) == \A i \in DOMAIN runLog : runLog[i].script = name

\* DatabaseLoader() and the entry of run_full_load
StartLoader ==
    /\ proc = "none"
    /\ Len(runLog) < MaxLoaderRuns
    /\ OnlyScript("loader")
    /\ proc' = "loader" /\ pc' = "load_datacenters"
    /\ loader' = EmptyLoader
    /\ connWrites' = <<>>
    /\ output' = <<>>
    /\ exitCode' = Null
    /\ tablesBefore' = db
    /\ UNCHANGED <<rawDir, procDir, db, runLog>>
    /\ UNCHANGED collectVars /\ UNCHANGED histVars /\ UNCHANGED peer

LoadDatacenters ==
    /\ proc = "loader" /\ pc = "load_datacenters"
    /\ \E dbFails \in BOOLEAN :
          IF IsNull(procDir.datacenters) \/ dbFails
          THEN pc' = "except" /\ UNCHANGED <<db, loader>>
          ELSE LET df == Val(procDir.datacenters)
               IN /\ db' = [db EXCEPT !.dim_datacenters =
                                AppendDatacenters(db.dim_datacenters, df)]
                  /\ loader' = [loader EXCEPT !.dc_count = Some(Len(df))]
                  /\ pc' = "load_electricity_prices"
    /\ UNCHANGED <<rawDir, procDir, proc, connWrites, output, exitCode, runLog,
                   tablesBefore>>
    /\ UNCHANGED collectVars /\ UNCHANGED histVars /\ UNCHANGED peer

LoadElectricityPrices ==
    /\ proc = "loader" /\ pc = "load_electricity_prices"
    /\ \E dbFails \in BOOLEAN :
          IF IsNull(procDir.prices) \/ dbFails
          THEN pc' = "except" /\ UNCHANGED <<db, loader, output>>
          ELSE \E sel \in FetchOneChoices(Val(procDir.prices), db.dim_date) :
                  LET df_load == PricesWithIds(Val(procDir.prices), db.dim_date, sel)
                  IN /\ IF Len(df_load) > 0
                        THEN /\ db' = [db EXCEPT !.fact_electricity_prices =
                                           db.fact_electricity_prices \o df_load]
                             /\ UNCHANGED output
                        ELSE /\ output' = Append(output, [kind |-> "no_records"])
                             /\ UNCHANGED db
                     /\ loader' = [loader EXCEPT !.price_count = Some(Len(df_load))]
                     /\ pc' = "generate_sample_energy_consumption"
    /\ UNCHANGED <<rawDir, procDir, proc, connWrites, exitCode, runLog, tablesBefore>>
    /\ UNCHANGED collectVars /\ UNCHANGED histVars /\ UNCHANGED peer

\* faulty variant of GenerateSampleEnergyConsumption: rows are generated for
\* the datacenters this run loaded only (the last dc_count rows of the table)
GenerateForLoadedDatacenters ==
    /\ proc = "loader" /\ pc = "generate_sample_energy_consumption"
    /\ \E dbFails \in BOOLEAN :
          IF dbFails
          THEN pc' = "except" /\ UNCHANGED <<db, loader>>
          ELSE LET all      == db.dim_datacenters
                   dc_df    == SubSeq(all, Len(all) - Val(loader.dc_count) + 1, Len(all))
                   dates_df == SelectSeq(db.dim_date, InWindow)
               IN \E draws \in [1..(Len(dc_df) * Len(dates_df)) -> DrawPool] :
                     LET recs == ConsumptionRecords(dc_df, dates_df, draws)
                     IN /\ db' = [db EXCEPT !.fact_energy_consumption =
                                      db.fact_energy_consumption \o recs]
                        /\ loader' = [loader EXCEPT
                                          !.consumption_count = Some(Len(recs))]
                        /\ pc' = "verify_data_integrity"
    /\ UNCHANGED <<rawDir, procDir, proc, connWrites, output, exitCode, runLog,
                   tablesBefore>>
    /\ UNCHANGED collectVars /\ UNCHANGED histVars /\ UNCHANGED peer

GenerateSampleEnergyConsumption ==
    /\ proc = "loader" /\ pc = "generate_sample_energy_consumption"
    /\ \E dbFails \in BOOLEAN :
          IF dbFails
          THEN pc' = "except" /\ UNCHANGED <<db, loader>>
          ELSE LET dc_df    == db.dim_datacenters
                   dates_df == SelectSeq(db.dim_date, InWindow)
               IN \E draws \in [1..(Len(dc_df) * Len(dates_df)) -> DrawPool] :
                     LET recs == ConsumptionRecords(dc_df, dates_df, draws)
                     IN /\ db' = [db EXCEPT !.fact_energy_consumption =
                                      db.fact_energy_consumption \o recs]
                        /\ loader' = [loader EXCEPT
                                          !.consumption_count = Some(Len(recs))]
                        /\ pc' = "verify_data_integrity"
    /\ UNCHANGED <<rawDir, procDir, proc, connWrites, output, exitCode, runLog,
                   tablesBefore>>
    /\ UNCHANGED collectVars /\ UNCHANGED histVars /\ UNCHANGED peer

\* faulty variant of VerifyDataIntegrity: the orphaned rows are deleted
VerifyDataIntegrityRepairing ==
    /\ proc = "loader" /\ pc = "verify_data_integrity"
    /\ \E dbFails \in BOOLEAN :
          IF dbFails
          THEN pc' = "except" /\ UNCHANGED <<db, loader>>
          ELSE /\ loader' = [loader EXCEPT !.orphans = Some(Orphans(db))]
               /\ db' = [db EXCEPT !.fact_energy_consumption =
                             SelectSeq(@, LAMBDA ec :
                                 \E j \in DOMAIN db.dim_datacenters :
                                     db.dim_datacenters[j].datacenter_id
                                         = ec.datacenter_id)]
               /\ pc' = "commit"
    /\ UNCHANGED <<rawDir, procDir, proc, connWrites, output, exitCode, runLog,
                   tablesBefore>>
    /\ UNCHANGED collectVars /\ UNCHANGED histVars /\ UNCHANGED peer

\* verify_data_integrity: counts the tables and the orphans, prints, returns True
VerifyDataIntegrity ==
    /\ proc = "loader" /\ pc = "verify_data_integrity"
    /\ \E dbFails \in BOOLEAN :
          IF dbFails
          THEN pc' = "except" /\ UNCHANGED loader
          ELSE /\ loader' = [loader EXCEPT !.orphans = Some(Orphans(db))]
               /\ pc' = "commit"
    /\ UNCHANGED <<rawDir, procDir, db, proc, connWrites, output, exitCode, runLog,
                   tablesBefore>>
    /\ UNCHANGED collectVars /\ UNCHANGED histVars /\ UNCHANGED peer

\* the writes pending on a connection, made durable
RECURSIVE ApplyWrites(_, _)
ApplyWrites(d, writes) ==
    IF writes = <<>> THEN d
    ELSE ApplyWrites([d EXCEPT ![Head(writes).table] = @ \o Head(writes).rows],
                     Tail(writes))

\* self.conn.commit(), the summary, return True
CommitAndReturn ==
    /\ proc = "loader" /\ pc = "commit"
    /\ db' = ApplyWrites(db, connWrites)
    /\ connWrites' = <<>>
    /\ loader' = [loader EXCEPT !.success = Some(TRUE)]
    /\ pc' = "finally"
    /\ UNCHANGED <<rawDir, procDir, proc, output, exitCode, runLog, tablesBefore>>
    /\ UNCHANGED collectVars /\ UNCHANGED histVars /\ UNCHANGED peer

\* except Exception: the traceback, self.conn.rollback(), return False
HandleException ==
    /\ proc = "loader" /\ pc = "except"
    /\ connWrites' = <<>>
    /\ loader' = [loader EXCEPT !.success = Some(FALSE)]
    /\ pc' = "finally"
    /\ UNCHANGED <<rawDir, procDir, db, proc, output, exitCode, runLog, tablesBefore>>
    /\ UNCHANGED collectVars /\ UNCHANGED histVars /\ UNCHANGED peer

\* the status the process ends with once run_full_load has returned `success`:
\* __main__ prints one of two messages and falls off the end of the script
MainExitStatus(success) == 0

\* finally: close cursor and connection; then the end of __main__
MainExit ==
    /\ proc = "loader" /\ pc = "finally"
    /\ exitCode' = Some(MainExitStatus(Val(loader.success)))
    /\ runLog' = Append(runLog, [script |-> "loader", ok |-> Val(loader.success)])
    /\ proc' = "none" /\ pc' = "idle"
    /\ UNCHANGED <<rawDir, procDir, db, loader, connWrites, output, tablesBefore>>
    /\ UNCHANGED collectVars /\ UNCHANGED histVars /\ UNCHANGED peer

----------------------------------------------------------------------------
(* load_data.py: main, load_datacenters, load_eia_prices, verify_data *)

\* main() after the connection test.  Nothing in main catches an exception of
\* a load: the interpreter prints the traceback and ends with status 1.
StartBulk ==
    /\ proc = "none"
    /\ Len(runLog) < MaxLoaderRuns
    /\ OnlyScript("bulk")
    /\ proc' = "bulk" /\ pc' = "bulk_load_datacenters"
    /\ loader' = EmptyLoader
    /\ connWrites' = <<>>
    /\ output' = <<>>
    /\ exitCode' = Null
    /\ tablesBefore' = db
    /\ UNCHANGED <<rawDir, procDir, db, runLog>>
    /\ UNCHANGED collectVars /\ UNCHANGED histVars /\ UNCHANGED peer

\* an uncaught exception ends the process
BulkCrash ==
    /\ exitCode' = Some(1)
    /\ runLog' = Append(runLog, [script |-> "bulk", ok |-> FALSE])
    /\ proc' = "none" /\ pc' = "idle"

BulkLoadDatacenters ==
    /\ proc = "bulk" /\ pc = "bulk_load_datacenters"
    /\ IF IsNull(procDir.datacenters)
       THEN /\ output' = Append(output, [kind |-> "file_not_found"])
            /\ pc' = "bulk_load_eia_prices"
            /\ UNCHANGED <<db, loader, proc, exitCode, runLog>>
       ELSE \E dbFails \in BOOLEAN :
               IF dbFails
               THEN BulkCrash /\ UNCHANGED <<db, loader, output>>
               ELSE LET df == Val(procDir.datacenters)
                    IN /\ db' = [db EXCEPT !.dim_datacenters =
                                     AppendDatacenters(db.dim_datacenters, df)]
                       /\ loader' = [loader EXCEPT !.dc_count = Some(Len(df))]
                       /\ pc' = "bulk_load_eia_prices"
                       /\ UNCHANGED <<output, proc, exitCode, runLog>>
    /\ UNCHANGED <<rawDir, procDir, connWrites, tablesBefore>>
    /\ UNCHANGED collectVars /\ UNCHANGED histVars /\ UNCHANGED peer

BulkLoadEiaPrices ==
    /\ proc = "bulk" /\ pc = "bulk_load_eia_prices"
    /\ IF IsNull(procDir.prices)
       THEN /\ output' = Append(output, [kind |-> "file_not_found"])
            /\ pc' = "bulk_verify_data"
            /\ UNCHANGED <<db, loader, proc, exitCode, runLog>>
       ELSE \E dbFails \in BOOLEAN :
               IF dbFails
               THEN BulkCrash /\ UNCHANGED <<db, loader, output>>
               ELSE LET df       == Val(procDir.prices)
                        missing  == BulkMissing(df, db.dim_date)
                        price_df == BulkPriceRows(df, db.dim_date)
                    IN /\ output' = IF missing > 0
                                    THEN Append(output, [kind |-> "excluded",
                                                         n |-> missing])
                                    ELSE output
                       /\ db' = [db EXCEPT !.fact_electricity_prices =
                                     db.fact_electricity_prices \o price_df]
                       /\ loader' = [loader EXCEPT
                                         !.price_count = Some(Len(price_df))]
                       /\ pc' = "bulk_verify_data"
                       /\ UNCHANGED <<proc, exitCode, runLog>>
    /\ UNCHANGED <<rawDir, procDir, connWrites, tablesBefore>>
    /\ UNCHANGED collectVars /\ UNCHANGED histVars /\ UNCHANGED peer

\* verify_data (read only), the closing banner, the end of the script
BulkVerifyData ==
    /\ proc = "bulk" /\ pc = "bulk_verify_data"
    /\ \E dbFails \in BOOLEAN :
          IF dbFails
          THEN BulkCrash
          ELSE /\ exitCode' = Some(0)
               /\ runLog' = Append(runLog, [script |-> "bulk", ok |-> TRUE])
               /\ proc' = "none" /\ pc' = "idle"
    /\ UNCHANGED <<rawDir, procDir, db, loader, connWrites, output, tablesBefore>>
    /\ UNCHANGED collectVars /\ UNCHANGED histVars /\ UNCHANGED peer

----------------------------------------------------------------------------

Next ==
    \/ StartCleaner
    \/ CleanEiaPrices
    \/ CleanDatacenterData
    \/ GenerateDataQualityReport
    \/ StartLoader
    \/ LoadDatacenters
    \/ LoadElectricityPrices
    \/ GenerateSampleEnergyConsumption
    \/ VerifyDataIntegrity
    \/ CommitAndReturn
    \/ HandleException
    \/ MainExit
    \/ StartBulk
    \/ BulkLoadDatacenters
    \/ BulkLoadEiaPrices
    \/ BulkVerifyData

Spec == Init /\ [][Next]_vars

----------------------------------------------------------------------------
(* 01_data_collection.py: DataCollector *)

\* The records the API may hold for one state.
ApiRecords(state) ==
    {<<>>,
     <<[period |-> <<2023, 5>>, stateid |-> state, sectorName |-> "all sectors",
        price |-> <<12>>, sales |-> <<7>>]>>}

\* What one requests.get may end in: an exception (network error, non-200
\* status, bad JSON), a body without response.data, or the records.
Responses(state) ==
    {[kind |-> "error", data |-> <<>>], [kind |-> "no_data", data |-> <<>>]}
        \cup {[kind |-> "data", data |-> d] : d \in ApiRecords(state)}

\* the list of create_sample_datacenter_data
SampleDatacenters == <<
    [name |-> "Virginia Data Center 1", latitude |-> 39, longitude |-> -77,
     capacity_mw |-> 150, is_ai_focused |-> TRUE, renewable_pct |-> <<65>>],
    [name |-> "Silicon Valley DC", latitude |-> 37, longitude |-> -122,
     capacity_mw |-> 120, is_ai_focused |-> TRUE, renewable_pct |-> <<85>>],
    [name |-> "Texas Mega Center", latitude |-> 29, longitude |-> -98,
     capacity_mw |-> 200, is_ai_focused |-> TRUE, renewable_pct |-> <<45>>],
    [name |-> "Oregon Data Hub", latitude |-> 44, longitude |-> -120,
     capacity_mw |-> 100, is_ai_focused |-> FALSE, renewable_pct |-> <<90>>],
    [name |-> "Iowa Compute Center", latitude |-> 41, longitude |-> -95,
     capacity_mw |-> 130, is_ai_focused |-> TRUE, renewable_pct |-> <<95>>],
    [name |-> "Georgia AI Facility", latitude |-> 33, longitude |-> -84,
     capacity_mw |-> 110, is_ai_focused |-> TRUE, renewable_pct |-> <<55>>],
    [name |-> "Illinois Data Complex", latitude |-> 41, longitude |-> -87,
     capacity_mw |-> 95, is_ai_focused |-> FALSE, renewable_pct |-> <<60>>],
    [name |-> "North Carolina Center", latitude |-> 35, longitude |-> -81,
     capacity_mw |-> 140, is_ai_focused |-> FALSE, renewable_pct |-> <<100>>] >>

\* datetime.now().strftime('%Y%m%d_%H%M%S'): the clock, to the second
Timestamp(now) == now

\* the creation time a file written now gets: later than every file there is
NextCtime(dir) ==
    IF DOMAIN dir = {} THEN 1
    ELSE 1 + (CHOOSE c \in {dir[n].ctime : n \in DOMAIN dir} :
                 \A n \in DOMAIN dir : dir[n].ctime <= c)

\* df.to_csv(output_file): creates the file, or replaces the one of that name
WriteFile(dir, name, rows) ==
    [n \in DOMAIN dir \cup {name} |->
        IF n = name THEN [ctime |-> NextCtime(dir), rows |-> rows] ELSE dir[n]]

\* faulty variant of AfterRequest: break in place of continue
StopOnError(idx, resp) ==
    IF resp.kind = "error" THEN Len(US_STATES) + 1 ELSE idx + 1

\* the position of the loop over US_STATES after the request at position idx
AfterRequest(idx, resp) == idx + 1

Tick ==
    /\ clock < MaxClock
    /\ clock' = clock + 1
    /\ UNCHANGED <<rawDir, procDir, proc, pc, collector, requests, slept>>
    /\ UNCHANGED loadVars /\ UNCHANGED histVars

\* DataCollector(): the timestamp is taken once, here
NewCollector ==
    /\ collector.pc \in {"none", "idle"}
    /\ collector.pc = "idle" => collector.runs > 0
    /\ collector.runs < MaxCollectRuns
    /\ collector' = [collector EXCEPT !.timestamp = Some(Timestamp(clock)),
                                      !.pc = "idle", !.idx = 0, !.all_data = <<>>]
    /\ UNCHANGED <<rawDir, procDir, proc, pc, clock, requests, slept>>
    /\ UNCHANGED loadVars /\ UNCHANGED histVars

\* run_all_collections, up to the loop of collect_eia_electricity_prices
StartCollection ==
    /\ collector.pc = "idle"
    /\ collector.runs < MaxCollectRuns
    /\ collector' = [collector EXCEPT !.pc = "prices", !.idx = 1,
                                      !.all_data = <<>>, !.runs = @ + 1]
    /\ requests' = <<>>
    /\ slept' = 0
    /\ UNCHANGED <<rawDir, procDir, proc, pc, clock>>
    /\ UNCHANGED loadVars /\ UNCHANGED histVars

\* one pass of the loop: the request for US_STATES[idx] and what follows it
RequestState ==
    /\ collector.pc = "prices"
    /\ collector.idx <= Len(US_STATES)
    /\ \E resp \in Responses(US_STATES[collector.idx]) :
          /\ requests' = Append(requests,
                                [state |-> US_STATES[collector.idx], resp |-> resp])
          /\ collector' = [collector EXCEPT
                 !.all_data = IF resp.kind = "data" THEN @ \o resp.data ELSE @,
                 !.idx = AfterRequest(collector.idx, resp)]
          /\ slept' = IF resp.kind = "error" THEN slept ELSE slept + 1
    /\ UNCHANGED <<rawDir, procDir, proc, pc, clock>>
    /\ UNCHANGED loadVars /\ UNCHANGED histVars

\* after the loop: pd.DataFrame(all_data).to_csv(eia_electricity_prices_<ts>.csv)
WritePricesSnapshot ==
    /\ collector.pc = "prices"
    /\ collector.idx > Len(US_STATES)
    /\ rawDir' = WriteFile(rawDir, FileName("prices", Val(collector.timestamp)),
                           collector.all_data)
    /\ lastWritten' = [lastWritten EXCEPT
           !.prices = Some(FileName("prices", Val(collector.timestamp)))]
    /\ collector' = [collector EXCEPT !.pc = "generation"]
    /\ UNCHANGED <<procDir, proc, pc, clock, requests, slept, cleanerError>>
    /\ UNCHANGED loadVars

\* collect_eia_generation_data: one request; a snapshot only when it has data
CollectEiaGenerationData ==
    /\ collector.pc = "generation"
    /\ \E kind \in {"error", "no_data", "data"} :
          IF kind = "data"
          THEN /\ rawDir' = WriteFile(rawDir,
                                   FileName("generation", Val(collector.timestamp)),
                                   <<[generation |-> 1]>>)
               /\ lastWritten' = [lastWritten EXCEPT !.generation =
                       Some(FileName("generation", Val(collector.timestamp)))]
          ELSE UNCHANGED <<rawDir, lastWritten>>
    /\ collector' = [collector EXCEPT !.pc = "datacenters"]
    /\ UNCHANGED <<procDir, proc, pc, clock, requests, slept, cleanerError>>
    /\ UNCHANGED loadVars

\* create_sample_datacenter_data, then the summary of run_all_collections
CreateSampleDatacenterData ==
    /\ collector.pc = "datacenters"
    /\ rawDir' = WriteFile(rawDir,
                           FileName("datacenters", Val(collector.timestamp)),
                           SampleDatacenters)
    /\ lastWritten' = [lastWritten EXCEPT
           !.datacenters = Some(FileName("datacenters", Val(collector.timestamp)))]
    /\ collector' = [collector EXCEPT !.pc = "idle"]
    /\ UNCHANGED <<procDir, proc, pc, clock, requests, slept, cleanerError>>
    /\ UNCHANGED loadVars

InitCollect ==
    /\ rawDir = <<>>
    /\ procDir = [prices |-> Null, datacenters |-> Null, report |-> Null]
    /\ db = [dim_datacenters |-> <<>>, dim_date |-> <<>>,
             fact_electricity_prices |-> <<>>, fact_energy_consumption |-> <<>>]
    /\ proc = "none" /\ pc = "idle"
    /\ loader = EmptyLoader
    /\ connWrites = <<>>
    /\ output = <<>>
    /\ exitCode = Null
    /\ runLog = <<>>
    /\ tablesBefore = db
    /\ clock = 0
    /\ collector = NoCollector
    /\ requests = <<>>
    /\ slept = 0
    /\ lastWritten = [k \in Datasets |-> Null]
    /\ cleanerError = Null
    /\ peer = NoPeer

CollectionStep ==
    \/ StartCollection
    \/ RequestState
    \/ WritePricesSnapshot
    \/ CollectEiaGenerationData
    \/ CreateSampleDatacenterData

NextCollect ==
    \/ Tick
    \/ NewCollector
    \/ CollectionStep

SpecCollect == InitCollect /\ [][NextCollect]_vars

\* a collection run that has started keeps executing
RunningStep ==
    \/ RequestState
    \/ WritePricesSnapshot
    \/ CollectEiaGenerationData
    \/ CreateSampleDatacenterData

FairSpecCollect == SpecCollect /\ WF_vars(RunningStep)

----------------------------------------------------------------------------
(* The collector and the cleaner, run one after the other *)

CleanerStep ==
    \/ StartCleaner
    \/ CleanEiaPrices
    \/ CleanDatacenterData
    \/ GenerateDataQualityReport

\* the scripts are run one at a time: no collection step while the cleaner
\* runs, no cleaner run while a collection is under way
NextPipeline ==
    \/ proc = "none" /\ NextCollect
    \/ collector.pc \in {"none", "idle"} /\ CleanerStep

SpecPipeline == InitCollect /\ [][NextPipeline]_vars

----------------------------------------------------------------------------
(* One run of run_full_load over a warehouse that already holds rows *)

\* dim_date rows around the limits of the generation window
GenDateRows == <<
    [date_id |-> 1, full_date |-> 20191201],
    [date_id |-> 2, full_date |-> 20200101],
    [date_id |-> 3, full_date |-> 20200102],
    [date_id |-> 4, full_date |-> 20241201],
    [date_id |-> 5, full_date |-> 20250101] >>

\* dim_datacenters as earlier loads left it
GenDcTables ==
    {AppendDatacenters(<<>>, CleanDatacenterRows(SubSeq(GoodDcRows, 2, j))) :
        j \in 1..3}

\* datacenters_clean.csv: no row, or the first facility
GenDcFiles == {CleanDatacenterRows(SubSeq(GoodDcRows, 1, j)) : j \in 0..1}

\* fact_energy_consumption as found: empty, or one row whose datacenter is
\* not in dim_datacenters
GenConsumptionTables ==
    {<<>>, <<[datacenter_id |-> 9, date_id |-> 2,
              energy_consumed_mwh |-> [num |-> 6205000, den |-> 100],
              source |-> "estimated"]>>}

InitGenerate ==
    /\ rawDir = <<>>
    /\ \E f \in GenDcFiles :
          procDir = [prices |-> Some(<<>>), datacenters |-> Some(f), report |-> Null]
    /\ \E dc \in GenDcTables, dd \in SubLists(GenDateRows),
          ec \in GenConsumptionTables :
          db = [dim_datacenters |-> dc, dim_date |-> dd,
                fact_electricity_prices |-> <<>>, fact_energy_consumption |-> ec]
    /\ proc = "none" /\ pc = "idle"
    /\ loader = EmptyLoader
    /\ connWrites = <<>>
    /\ output = <<>>
    /\ exitCode = Null
    /\ runLog = <<>>
    /\ tablesBefore = db
    /\ clock = 0
    /\ collector = NoCollector
    /\ requests = <<>>
    /\ slept = 0
    /\ lastWritten = [k \in Datasets |-> Null]
    /\ cleanerError = Null
    /\ peer = NoPeer

NextGenerate ==
    \/ runLog = <<>> /\ StartLoader
    \/ LoadDatacenters
    \/ LoadElectricityPrices
    \/ GenerateSampleEnergyConsumption
    \/ VerifyDataIntegrity
    \/ CommitAndReturn
    \/ HandleException
    \/ MainExit

SpecGenerate == InitGenerate /\ [][NextGenerate]_vars

----------------------------------------------------------------------------
(* Two processes of 03_data_transformation.py at the same time *)

\* The operating system runs one of the two processes at a time and may
\* switch between them after any statement that reaches the database.  The
\* process that is not running is kept in peer; the tables and the files are
\* shared.  Every to_sql is one transaction, so a step of a load is atomic.
SwitchProcess ==
    /\ peer' = [proc |-> proc, pc |-> pc, loader |-> loader,
                connWrites |-> connWrites, output |-> output,
                exitCode |-> exitCode, tablesBefore |-> tablesBefore]
    /\ proc' = peer.proc /\ pc' = peer.pc
    /\ loader' = peer.loader
    /\ connWrites' = peer.connWrites
    /\ output' = peer.output
    /\ exitCode' = peer.exitCode
    /\ tablesBefore' = peer.tablesBefore
    /\ UNCHANGED <<rawDir, procDir, db, runLog>>
    /\ UNCHANGED collectVars /\ UNCHANGED histVars

\* both processes find the same cleaned files and the tables empty
InitTwoLoaders ==
    /\ rawDir = <<>>
    /\ \E j \in 1..2 :
          procDir = [prices |-> Some(CleanEiaPricesRows(GoodPriceRows)),
                     datacenters |-> Some(CleanDatacenterRows(SubSeq(GoodDcRows, 1, j))),
                     report |-> Null]
    /\ \E dd \in DimDateTables :
          db = [dim_datacenters |-> <<>>, dim_date |-> dd,
                fact_electricity_prices |-> <<>>, fact_energy_consumption |-> <<>>]
    /\ proc = "none" /\ pc = "idle"
    /\ loader = EmptyLoader
    /\ connWrites = <<>>
    /\ output = <<>>
    /\ exitCode = Null
    /\ runLog = <<>>
    /\ tablesBefore = db
    /\ clock = 0
    /\ collector = NoCollector
    /\ requests = <<>>
    /\ slept = 0
    /\ lastWritten = [k \in Datasets |-> Null]
    /\ cleanerError = Null
    /\ peer = [NoPeer EXCEPT !.tablesBefore = db]

\* each of the two processes runs run_full_load once
NextTwoLoaders ==
    \/ SwitchProcess
    \/ IsNull(exitCode) /\ StartLoader
    \/ LoadDatacenters
    \/ LoadElectricityPrices
    \/ GenerateSampleEnergyConsumption
    \/ VerifyDataIntegrity
    \/ CommitAndReturn
    \/ HandleException
    \/ MainExit

SpecTwoLoaders == InitTwoLoaders /\ [][NextTwoLoaders]_vars

----------------------------------------------------------------------------
(* Properties *)

LastRun == runLog[Len(runLog)]

\* a run of the given loader script has just ended
RunEnded(script) == proc = "none" /\ runLog # <<>> /\ LastRun.script = script

\* every loader run so far was a run_full_load that returned True
AllRunsSucceeded ==
    \A i \in DOMAIN runLog : runLog[i].script = "loader" /\ runLog[i].ok

\* the dim_date rows whose literal date is the date written in a cleaned row
DimRowsFor(c) == {i \in DOMAIN db.dim_date : FormatDate(db.dim_date[i].full_date) = c.date}

\* fact row a carries the values of cleaned price row c
FromCleaned(a, c) ==
    /\ a.region = c.state
    /\ a.price_cents_per_kwh = c.price_cents_per_kwh
    /\ a.price_per_kwh = c.price_per_kwh
    /\ a.sales_mwh = c.sales_mwh

\* C1: when a step of run_full_load raises, every warehouse table holds after
\* the run exactly the rows it held before the run started.
C1_FailedRunRestoresTables ==
    (RunEnded("loader") /\ ~LastRun.ok) => db = tablesBefore

\* C2: every row of fact_electricity_prices carries the values of a cleaned
\* price row and the date_id of a dim_date row whose full_date is that row's
\* date; a cleaned row whose date no dim_date row has left no fact row.
C2_DateKeysResolved ==
    /\ \A i \in DOMAIN db.fact_electricity_prices :
          /\ ~IsNull(procDir.prices)
          /\ \E j \in DOMAIN Val(procDir.prices) :
                /\ FromCleaned(db.fact_electricity_prices[i], Val(procDir.prices)[j])
                /\ \E k \in DimRowsFor(Val(procDir.prices)[j]) :
                      db.dim_date[k].date_id = db.fact_electricity_prices[i].date_id
    /\ ~IsNull(procDir.prices) =>
          \A j \in DOMAIN Val(procDir.prices) :
             DimRowsFor(Val(procDir.prices)[j]) = {} =>
                \A i \in DOMAIN db.fact_electricity_prices :
                   ~FromCleaned(db.fact_electricity_prices[i], Val(procDir.prices)[j])

\* C2 witness: a load has appended price rows from a cleaned file that also
\* holds a row whose date is not in dim_date.
C2_Witness ==
    /\ proc = "none" /\ runLog # <<>>
    /\ db.fact_electricity_prices # <<>>
    /\ ~IsNull(procDir.prices)
    /\ \E j \in DOMAIN Val(procDir.prices) : DimRowsFor(Val(procDir.prices)[j]) = {}

\* C3: after a run_full_load that returned True no fact_energy_consumption row
\* has a datacenter_id missing from dim_datacenters, and the orphan count that
\* verify_data_integrity reported is zero.
C3_NoOrphansAfterLoad ==
    (RunEnded("loader") /\ LastRun.ok) =>
        /\ loader.orphans = Some(0)
        /\ \A i \in DOMAIN db.fact_energy_consumption :
              \E j \in DOMAIN db.dim_datacenters :
                 db.dim_datacenters[j].datacenter_id
                    = db.fact_energy_consumption[i].datacenter_id

\* C3 witness: a second successful run in a row has ended, over a
\* dim_datacenters that already held rows, with consumption rows generated.
C3_Witness ==
    /\ RunEnded("loader") /\ LastRun.ok
    /\ Len(runLog) >= 2
    /\ tablesBefore.dim_datacenters # <<>>
    /\ Len(db.fact_energy_consumption) > Len(tablesBefore.fact_energy_consumption)

\* C4: the loader process of 03_data_transformation.py ends with a non-zero
\* status when run_full_load failed and with status zero only when it succeeded.
C4_ExitStatusTellsFailure ==
    RunEnded("loader") => (Val(exitCode) = 0 <=> LastRun.ok)

\* the rows of the cleaned price file whose date is not in dim_date
Unmatched == Count(Val(procDir.prices), LAMBDA c : DimRowsFor(c) = {})

\* the printed warnings that tell of excluded rows
ExclusionWarnings == SelectSeq(output, LAMBDA w : w.kind = "excluded")

\* C5: DatabaseLoader.load_electricity_prices returns the number of cleaned
\* rows minus the unmatched ones, prints exactly one warning that carries the
\* number of excluded rows when there are any, and no warning when there are none.
C5_ExcludedRowsWarnedOnce ==
    (proc = "loader" /\ pc = "generate_sample_energy_consumption") =>
        /\ loader.price_count = Some(Len(Val(procDir.prices)) - Unmatched)
        /\ Unmatched > 0 => ExclusionWarnings = <<[kind |-> "excluded", n |-> Unmatched]>>
        /\ Unmatched = 0 => ExclusionWarnings = <<>>

\* the number of rows of table t that carry the values of cleaned row c
CopiesOfDc(c) ==
    Count(db.dim_datacenters,
          LAMBDA a : /\ a.name = c.name /\ a.latitude = c.latitude
                     /\ a.longitude = c.longitude /\ a.capacity_mw = c.capacity_mw
                     /\ a.is_ai_focused = c.is_ai_focused
                     /\ a.renewable_energy_pct = c.renewable_pct)

CopiesOfPrice(c) ==
    Count(db.fact_electricity_prices,
          LAMBDA a : /\ FromCleaned(a, c)
                     /\ \E k \in DimRowsFor(c) : db.dim_date[k].date_id = a.date_id)

\* after k successful runs and no other: k copies of every cleaned row
KCopies ==
    (proc = "none" /\ runLog # <<>> /\ AllRunsSucceeded) =>
        /\ \A j \in DOMAIN Val(procDir.datacenters) :
              CopiesOfDc(Val(procDir.datacenters)[j]) = Len(runLog)
        /\ Len(db.dim_datacenters) = Len(runLog) * Len(Val(procDir.datacenters))
        /\ \A j \in DOMAIN Val(procDir.prices) :
              CopiesOfPrice(Val(procDir.prices)[j])
                 = IF DimRowsFor(Val(procDir.prices)[j]) = {} THEN 0 ELSE Len(runLog)

\* no step removes or changes a row that is in a table
AppendOnly ==
    /\ IsPrefix(db.dim_datacenters, db'.dim_datacenters)
    /\ IsPrefix(db.fact_electricity_prices, db'.fact_electricity_prices)
    /\ IsPrefix(db.fact_energy_consumption, db'.fact_energy_consumption)

\* C6: k successful DatabaseLoader runs over the same cleaned files leave every
\* cleaned facility row k times in dim_datacenters and the fact row of every
\* cleaned price row k times in fact_electricity_prices, and no step of any
\* run removes, updates or deduplicates a loaded row.
C6_AppendOnlyKCopies == []KCopies /\ [][AppendOnly]_vars

\* C6 witness: two successful runs in a row over files with a facility row and
\* a price row that was loaded.
C6_Witness ==
    /\ proc = "none" /\ Len(runLog) = 2 /\ AllRunsSucceeded
    /\ Val(procDir.datacenters) # <<>>
    /\ \E j \in DOMAIN Val(procDir.prices) : CopiesOfPrice(Val(procDir.prices)[j]) = 2


\* the states of the requests sent so far, and the records of those that
\* returned data, in request order
RequestedStates == [i \in DOMAIN requests |-> requests[i].state]
ReturnedRecords ==
    Concat([i \in DOMAIN requests |->
               IF requests[i].resp.kind = "data" THEN requests[i].resp.data ELSE <<>>])

PricesCollected == collector.pc \in {"generation", "datacenters"}

\* while the loop runs the states requested are the first ones of US_STATES,
\* each once; after it all of US_STATES were requested once, in order, all_data
\* is the records of the requests that succeeded, and the snapshot holds them
CollectedAll ==
    /\ collector.pc = "prices" =>
          RequestedStates = SubSeq(US_STATES, 1, collector.idx - 1)
    /\ PricesCollected =>
          /\ RequestedStates = US_STATES
          /\ collector.all_data = ReturnedRecords
          /\ FileName("prices", Val(collector.timestamp)) \in DOMAIN rawDir
          /\ rawDir[FileName("prices", Val(collector.timestamp))].rows
                = ReturnedRecords

\* C7: whichever requests fail, collect_eia_electricity_prices requests every
\* state of US_STATES exactly once, in order, accumulates exactly the records
\* of the requests that succeeded, and ends by writing its snapshot.
C7_EveryStateOnceThenSnapshot ==
    []CollectedAll /\ ((collector.pc = "prices") ~> PricesCollected)

\* C7 witness: the snapshot was written after a request that failed and a
\* request that returned records.
C7_Witness ==
    /\ PricesCollected
    /\ \E i \in DOMAIN requests : requests[i].resp.kind = "error"
    /\ \E i \in DOMAIN requests :
          requests[i].resp.kind = "data" /\ requests[i].resp.data # <<>>

\* C8: no step of a collection run replaces a raw snapshot that exists.
C8_SnapshotNeverOverwritten ==
    [][\A n \in DOMAIN rawDir : n \in DOMAIN rawDir' /\ rawDir'[n] = rawDir[n]]_vars

\* price p in cents is present and within [1, 100], q is p / 100, s is present
PriceRowOk(p, q, s) ==
    /\ ~IsNull(p) /\ Val(p) >= 1 /\ Val(p) <= 100
    /\ ~IsNull(q) /\ Val(q).num * 100 = Val(p) * Val(q).den
    /\ ~IsNull(s)

\* C9: every row of eia_prices_clean.csv and of fact_electricity_prices has a
\* price within [1, 100] cents, price_per_kwh equal to that price / 100 and a
\* sales value: no raw row with a price outside the range or with a missing
\* price or sales value is among them.
C9_LoadedPricesInRange ==
    /\ ~IsNull(procDir.prices) =>
          \A j \in DOMAIN Val(procDir.prices) :
             PriceRowOk(Val(procDir.prices)[j].price_cents_per_kwh,
                        Val(procDir.prices)[j].price_per_kwh,
                        Val(procDir.prices)[j].sales_mwh)
    /\ \A i \in DOMAIN db.fact_electricity_prices :
          PriceRowOk(db.fact_electricity_prices[i].price_cents_per_kwh,
                     db.fact_electricity_prices[i].price_per_kwh,
                     db.fact_electricity_prices[i].sales_mwh)

\* the raw price snapshot holds a row that must not pass
RawPriceHasBadRow ==
    \E n \in Matching(rawDir, "prices") : \E i \in DOMAIN rawDir[n].rows :
        \/ IsNull(rawDir[n].rows[i].price) \/ IsNull(rawDir[n].rows[i].sales)
        \/ Val(rawDir[n].rows[i].price) < 1 \/ Val(rawDir[n].rows[i].price) > 100

\* C9 witness: price rows were loaded from the cleaning of a snapshot that
\* held a row with a bad price or a missing value.
C9_Witness ==
    /\ RawPriceHasBadRow
    /\ ~IsNull(procDir.prices)
    /\ db.fact_electricity_prices # <<>>

InsideBox(lat, lon) == lat >= 24 /\ lat <= 71 /\ lon >= -180 /\ lon <= -66

Names(rows) == [i \in DOMAIN rows |-> rows[i].name]

RawRowInsideBox(r) == InsideBox(r.latitude, r.longitude)

\* C10: every row of datacenters_clean.csv and of dim_datacenters lies in the
\* box 24 <= latitude <= 71, -180 <= longitude <= -66, and the cleaned file
\* holds exactly the rows of the raw snapshot that lie in the box.
C10_FacilitiesInsideBox ==
    /\ ~IsNull(procDir.datacenters) =>
          /\ \A j \in DOMAIN Val(procDir.datacenters) :
                InsideBox(Val(procDir.datacenters)[j].latitude,
                          Val(procDir.datacenters)[j].longitude)
          /\ \E n \in Matching(rawDir, "datacenters") :
                Names(Val(procDir.datacenters))
                   = Names(SelectSeq(rawDir[n].rows, RawRowInsideBox))
    /\ \A i \in DOMAIN db.dim_datacenters :
          InsideBox(db.dim_datacenters[i].latitude, db.dim_datacenters[i].longitude)

\* C10 witness: the raw snapshot held the row with latitude 10 and a row in
\* the box; the cleaned file was written and loaded.
C10_Witness ==
    /\ \E n \in Matching(rawDir, "datacenters") :
          /\ \E i \in DOMAIN rawDir[n].rows : rawDir[n].rows[i].latitude = 10
          /\ \E i \in DOMAIN rawDir[n].rows : RawRowInsideBox(rawDir[n].rows[i])
    /\ ~IsNull(procDir.datacenters)
    /\ db.dim_datacenters # <<>>

\* the value a percentage x is held to: below 0 it is 0, above 100 it is 100
Clamped(x) == IF x < 0 THEN 0 ELSE IF x > 100 THEN 100 ELSE x

\* row a of the cleaned file or of dim_datacenters, with percentage p, is raw
\* row r with its percentage clamped; a missing percentage stays missing
ClampedFrom(name, p, r) ==
    /\ name = r.name
    /\ p = IF IsNull(r.renewable_pct) THEN Null
           ELSE Some(Clamped(Val(r.renewable_pct)))

\* the rows of the raw facility snapshot that lie in the box
RawRowsInBox ==
    {r \in UNION {{rawDir[n].rows[i] : i \in DOMAIN rawDir[n].rows} :
                     n \in Matching(rawDir, "datacenters")} : RawRowInsideBox(r)}

\* a load of the facility file has returned in the last loader process
FacilitiesLoaded == proc = "none" /\ runLog # <<>> /\ ~IsNull(loader.dc_count)

\* every row in the box is kept, with its percentage clamped, in the cleaned
\* file and, once loaded, in dim_datacenters
ClampedNotDropped ==
    /\ ~IsNull(procDir.datacenters) =>
          \A r \in RawRowsInBox :
             \E j \in DOMAIN Val(procDir.datacenters) :
                ClampedFrom(Val(procDir.datacenters)[j].name,
                            Val(procDir.datacenters)[j].renewable_pct, r)
    /\ FacilitiesLoaded =>
          \A r \in RawRowsInBox :
             \E i \in DOMAIN db.dim_datacenters :
                ClampedFrom(db.dim_datacenters[i].name,
                            db.dim_datacenters[i].renewable_energy_pct, r)

\* C11 as stated: a row with a percentage outside [0,100] is kept and
\* clamped, and every row of dim_datacenters has renewable_energy_pct
\* within [0,100].
C11_EveryLoadedPctInRange ==
    /\ ClampedNotDropped
    /\ \A i \in DOMAIN db.dim_datacenters :
          /\ ~IsNull(db.dim_datacenters[i].renewable_energy_pct)
          /\ Val(db.dim_datacenters[i].renewable_energy_pct) >= 0
          /\ Val(db.dim_datacenters[i].renewable_energy_pct) <= 100

\* C11, amended: a row with a percentage outside [0,100] is kept and clamped
\* (150 becomes 100, a negative value 0); every row of dim_datacenters whose
\* renewable_energy_pct is present has it within [0,100], and a row whose
\* percentage is missing is kept with the percentage missing.
C11_RenewableClampedNotDropped ==
    /\ ClampedNotDropped
    /\ \A i \in DOMAIN db.dim_datacenters :
          ~IsNull(db.dim_datacenters[i].renewable_energy_pct) =>
             /\ Val(db.dim_datacenters[i].renewable_energy_pct) >= 0
             /\ Val(db.dim_datacenters[i].renewable_energy_pct) <= 100

\* C11 witness: the raw row with 150 percent is in dim_datacenters with 100.
C11_Witness ==
    /\ FacilitiesLoaded
    /\ \E r \in RawRowsInBox : r.renewable_pct = <<150>>
    /\ \E i \in DOMAIN db.dim_datacenters :
          db.dim_datacenters[i].renewable_energy_pct = <<100>>

\* C12: over the same raw snapshots a further run of run_all_cleaning writes
\* the cleaned price file and the cleaned facility file with the content the
\* run before wrote: no step changes the content of a cleaned file that exists.
C12_CleanerIdempotent ==
    [][/\ ~IsNull(procDir.prices) => procDir'.prices = procDir.prices
       /\ ~IsNull(procDir.datacenters) => procDir'.datacenters = procDir.datacenters]_vars

\* C12 witness: a run of the cleaner has written both cleaned files, with rows
\* in them, after an earlier run had finished (its report is there).
C12_Witness ==
    /\ proc = "cleaner" /\ pc = "report"
    /\ ~IsNull(procDir.report)
    /\ Val(procDir.prices) # <<>> /\ Val(procDir.datacenters) # <<>>

\* the rows of the snapshot of dataset kind that was written last
LastSnapshotRows(kind) == rawDir[Val(lastWritten[kind])].rows

\* a cleaning step on a dataset without a snapshot: FileNotFoundError ends the
\* process and no cleaned file is written
NotFoundStep ==
    /\ procDir' = procDir
    /\ proc' = "none"
    /\ cleanerError' = Some("FileNotFoundError")

\* a cleaning step on a last snapshot without records: read_csv raises
\* EmptyDataError and no cleaned file is written
EmptySnapshotStep(kind) ==
    /\ LastSnapshotRows(kind) = <<>>
    /\ procDir' = procDir
    /\ proc' = "none"
    /\ cleanerError' = Some("EmptyDataError")

CleansLastSnapshot ==
    /\ (proc = "cleaner" /\ pc = "clean_eia_prices") =>
          IF IsNull(lastWritten.prices) THEN NotFoundStep
          ELSE \/ EmptySnapshotStep("prices")
               \/ /\ LastSnapshotRows("prices") # <<>>
                  /\ procDir' = [procDir EXCEPT !.prices =
                         Some(CleanEiaPricesRows(LastSnapshotRows("prices")))]
    /\ (proc = "cleaner" /\ pc = "clean_datacenter_data") =>
          IF IsNull(lastWritten.datacenters) THEN NotFoundStep
          ELSE \/ EmptySnapshotStep("datacenters")
               \/ /\ LastSnapshotRows("datacenters") # <<>>
                  /\ procDir' = [procDir EXCEPT !.datacenters =
                         Some(CleanDatacenterRows(LastSnapshotRows("datacenters")))]

LoaderRunning == proc \in {"loader", "bulk"}

\* C14: a loader run that finds datacenters_clean.csv or eia_prices_clean.csv
\* missing performs no table load after the one that missed its file, and
\* does not end as a successful run: a run that ended in success has loaded
\* both files.
C14_MissingFileIsFatal ==
    /\ (LoaderRunning /\ IsNull(procDir.datacenters)) =>
          pc \in {"load_datacenters", "bulk_load_datacenters", "except", "finally"}
    /\ (LoaderRunning /\ IsNull(procDir.prices)) =>
          pc \notin {"generate_sample_energy_consumption", "verify_data_integrity",
                     "commit", "bulk_verify_data"}
    /\ (proc = "none" /\ runLog # <<>> /\ LastRun.ok) =>
          ~IsNull(loader.dc_count) /\ ~IsNull(loader.price_count)

\* the part of C14 that is about DatabaseLoader.run_full_load alone
C14_MissingFileFailsFullLoad ==
    /\ (proc = "loader" /\ IsNull(procDir.datacenters)) =>
          pc \in {"load_datacenters", "except", "finally"}
    /\ (proc = "loader" /\ IsNull(procDir.prices)) =>
          pc \notin {"generate_sample_energy_consumption", "verify_data_integrity",
                     "commit"}
    /\ (RunEnded("loader") /\ LastRun.ok) =>
          ~IsNull(loader.dc_count) /\ ~IsNull(loader.price_count)

\* generate_sample_energy_consumption has just returned
Generated == proc = "loader" /\ pc = "verify_data_integrity"

\* the rows the running load has appended to fact_energy_consumption
NewConsumption ==
    SubSeq(db.fact_energy_consumption,
           Len(tablesBefore.fact_energy_consumption) + 1,
           Len(db.fact_energy_consumption))

\* the positions of the dim_date rows that are the first day of a month from
\* 2020-01-01 to 2024-12-01
FirstOfMonthInWindow ==
    {k \in DOMAIN db.dim_date :
        /\ db.dim_date[k].full_date % 100 = 1
        /\ db.dim_date[k].full_date >= 20200101
        /\ db.dim_date[k].full_date <= 20241201}

\* C15: generate_sample_energy_consumption appends exactly one row for every
\* pair of a dim_datacenters row and a dim_date row that is a first of month
\* in the window; it returns their number, |datacenters| x |dates|; every row
\* it appends carries the ids of such a pair and source = 'estimated'.
C15_OneRowPerPair ==
    Generated =>
        /\ IsPrefix(tablesBefore.fact_energy_consumption, db.fact_energy_consumption)
        /\ Len(NewConsumption)
              = Len(db.dim_datacenters) * Cardinality(FirstOfMonthInWindow)
        /\ loader.consumption_count = Some(Len(NewConsumption))
        /\ \A i \in DOMAIN db.dim_datacenters : \A k \in FirstOfMonthInWindow :
              Count(NewConsumption,
                    LAMBDA r : /\ r.datacenter_id = db.dim_datacenters[i].datacenter_id
                               /\ r.date_id = db.dim_date[k].date_id) = 1
        /\ \A n \in DOMAIN NewConsumption :
              /\ NewConsumption[n].source = "estimated"
              /\ \E i \in DOMAIN db.dim_datacenters :
                    NewConsumption[n].datacenter_id = db.dim_datacenters[i].datacenter_id
              /\ \E k \in FirstOfMonthInWindow :
                    NewConsumption[n].date_id = db.dim_date[k].date_id

\* C15 witness: rows were generated for three datacenters and the two dates
\* at the limits of the window, with dates outside the window in dim_date.
C15_Witness ==
    /\ Generated
    /\ Len(db.dim_datacenters) = 3
    /\ Cardinality(FirstOfMonthInWindow) = 2
    /\ Len(db.dim_date) = 5
    /\ Len(NewConsumption) = 6

\* the dim_datacenters rows with the datacenter_id of consumption row r
DatacentersOf(r) ==
    {i \in DOMAIN db.dim_datacenters :
        db.dim_datacenters[i].datacenter_id = r.datacenter_id}

\* e, an exact fraction of a MWh, lies in [cap * 730 * lo, cap * 730 * hi]
\* where lo and hi are in hundredths
EnergyWithin(e, cap, lo, hi) ==
    /\ e.num * 100 >= cap * 730 * lo * e.den
    /\ e.num * 100 <= cap * 730 * hi * e.den

VerifyStep == proc = "loader" /\ pc = "verify_data_integrity"

\* the number of fact_energy_consumption rows without their datacenter
OrphanedRows ==
    Cardinality({n \in DOMAIN db.fact_energy_consumption :
                    DatacentersOf(db.fact_energy_consumption[n]) = {}})

\* C17: a step of verify_data_integrity leaves the four tables as they are,
\* writes nothing on the loader's connection, and when it returns it has
\* reported the number of orphaned fact_energy_consumption rows, which stay
\* in the table.
C17_VerifyIsReadOnly ==
    [][VerifyStep =>
          /\ db' = db
          /\ connWrites' = connWrites
          /\ pc' = "commit" => loader'.orphans = Some(OrphanedRows)]_vars

\* C17 witness: a run_full_load has returned True after its verification
\* counted one orphaned row, and the row is still in the table.
C17_Witness ==
    /\ RunEnded("loader") /\ LastRun.ok
    /\ loader.orphans = Some(1)
    /\ OrphanedRows = 1

\* the loop of collect_eia_electricity_prices is about to send a request
AboutToRequest == collector.pc = "prices" /\ collector.idx <= Len(US_STATES)

\* C18: when collect_eia_electricity_prices is about to send a request, every
\* request it sent before was followed by the throttle delay, whether that
\* request returned records, returned no data or failed.
C18_DelayBetweenRequests == AboutToRequest => slept = Len(requests)

\* the columns of a fact_electricity_prices row that both price loads set
\* from the cleaned row and the date lookup
PriceColumns(r) ==
    [region |-> r.region, date_id |-> r.date_id,
     price_cents_per_kwh |-> r.price_cents_per_kwh,
     price_per_kwh |-> r.price_per_kwh, sales_mwh |-> r.sales_mwh]

\* a and b hold the same rows the same number of times, in those columns
SameMultiset(a, b) ==
    /\ Len(a) = Len(b)
    /\ \A i \in DOMAIN a :
          Count(a, LAMBDA r : PriceColumns(r) = PriceColumns(a[i]))
             = Count(b, LAMBDA r : PriceColumns(r) = PriceColumns(a[i]))

\* the rows a step appends to fact_electricity_prices
AppendedPrices ==
    SubSeq(db'.fact_electricity_prices, Len(db.fact_electricity_prices) + 1,
           Len(db'.fact_electricity_prices))

\* a step in which DatabaseLoader.load_electricity_prices returns
PerRowLoadReturns ==
    /\ proc = "loader" /\ pc = "load_electricity_prices"
    /\ pc' = "generate_sample_energy_consumption"

\* a step in which load_eia_prices of load_data.py returns
BulkLoadReturns ==
    /\ proc = "bulk" /\ pc = "bulk_load_eia_prices"
    /\ ~IsNull(procDir.prices)
    /\ pc' = "bulk_verify_data"

\* what either price load appends and returns is what the other one appends
\* and returns from the same cleaned file and the same dim_date
LoadsAgree ==
    /\ PerRowLoadReturns =>
          /\ SameMultiset(AppendedPrices,
                          BulkPriceRows(Val(procDir.prices), db.dim_date))
          /\ loader'.price_count
                = Some(Len(BulkPriceRows(Val(procDir.prices), db.dim_date)))
    /\ BulkLoadReturns =>
          \A sel \in FetchOneChoices(Val(procDir.prices), db.dim_date) :
             /\ SameMultiset(AppendedPrices,
                             PricesWithIds(Val(procDir.prices), db.dim_date, sel))
             /\ loader'.price_count
                   = Some(Len(PricesWithIds(Val(procDir.prices), db.dim_date, sel)))

\* dim_date holds one row per calendar day
OneRowPerDay ==
    \A i, j \in DOMAIN db.dim_date :
        db.dim_date[i].full_date = db.dim_date[j].full_date => i = j

\* C19 as stated: the per-row load and the bulk-join load append the same
\* multiset of (region, date_id, price_cents_per_kwh, price_per_kwh,
\* sales_mwh) rows and return the same count, also when dim_date holds
\* several rows with the same full_date.
C19_LoadsAgreeOnAnyDimDate == [][LoadsAgree]_vars

\* C19, amended: the per-row load and the bulk-join load append the same
\* multiset of (region, date_id, price_cents_per_kwh, price_per_kwh,
\* sales_mwh) rows and return the same count when dim_date holds one row per
\* calendar day.
C19_LoadsAgreeOnUniqueDates == [][OneRowPerDay => LoadsAgree]_vars

\* C19 witness: over a dim_date with one row per day, a price load has
\* returned after loading one row of a cleaned file and leaving out another.
C19_Witness ==
    /\ OneRowPerDay
    /\ \/ proc = "loader" /\ pc = "generate_sample_energy_consumption"
       \/ proc = "bulk" /\ pc = "bulk_verify_data"
    /\ ~IsNull(procDir.prices)
    /\ Len(Val(procDir.prices)) = 2
    /\ Unmatched = 1
    /\ loader.price_count = Some(1)

\* both processes have ended and both run_full_load returned True
BothRunsSucceeded ==
    /\ proc = "none" /\ peer.proc = "none"
    /\ Len(runLog) = 2
    /\ runLog[1].ok /\ runLog[2].ok

\* what one run alone appends to the empty tables
SingleDatacenters == Len(Val(procDir.datacenters))
SinglePrices == Len(Val(procDir.prices)) - Unmatched
SingleConsumption == SingleDatacenters * Cardinality(FirstOfMonthInWindow)

\* dim_datacenters and fact_electricity_prices hold every row of one run twice
TwiceDimAndPrices ==
    /\ Len(db.dim_datacenters) = 2 * SingleDatacenters
    /\ \A j \in DOMAIN Val(procDir.datacenters) :
          CopiesOfDc(Val(procDir.datacenters)[j]) = 2
    /\ Len(db.fact_electricity_prices) = 2 * SinglePrices

\* C20 as stated: after two simultaneous runs of run_full_load over empty
\* tables have both finished, dim_datacenters, fact_electricity_prices and
\* fact_energy_consumption each hold exactly twice the rows of a single run.
C20_EveryTableTwice ==
    BothRunsSucceeded =>
        /\ TwiceDimAndPrices
        /\ Len(db.fact_energy_consumption) = 2 * SingleConsumption

\* C20, amended: after both runs have finished, dim_datacenters and
\* fact_electricity_prices hold exactly twice the rows of a single run, and
\* fact_energy_consumption holds three or four times the rows of a single
\* run: each run generates rows for every datacenter that is in
\* dim_datacenters when it generates, those of the other run included.
C20_TwiceLoadedMoreGenerated ==
    BothRunsSucceeded =>
        /\ TwiceDimAndPrices
        /\ Len(db.fact_energy_consumption) \in
               {3 * SingleConsumption, 4 * SingleConsumption}

\* C20 witness: both runs have finished after the two loads of the facility
\* file came before both generations: four times the rows of a single run.
C20_Witness ==
    /\ BothRunsSucceeded
    /\ SingleConsumption > 0 /\ SinglePrices > 0
    /\ Len(db.fact_energy_consumption) = 4 * SingleConsumption

=============================================================================
